---- MODULE Spec2Model ----
(***************************************************************************)
(* Verification model of the Schwarzschild ray tracer, the Kepler orbit    *)
(* and the orbit camera of black_hole_wasm_rust (wasm/src/integrator.rs,   *)
(* wasm/src/physics.rs, wasm/src/camera.rs).                               *)
(*                                                                         *)
(* Floating point.  An f64/f32 value is a record: NaN, +Inf, -Inf or a     *)
(* finite fixed-point number with ONE steps per unit.  Finite results      *)
(* beyond the format's largest magnitude become infinities, invalid        *)
(* operations (0/0, Inf-Inf, 0*Inf, sqrt of a negative) become NaN and NaN *)
(* propagates, every comparison with NaN is false: IEEE-754 as Rust        *)
(* implements it.  The model has one zero (no -0.0) and a coarser          *)
(* resolution and a smaller range than the hardware formats.               *)
(*                                                                         *)
(* Units.  Lengths are in units of G*SAG_A_MASS/C^2, so that G = C =       *)
(* SAG_A_MASS = 1 and SAG_A_RS = 2; the affine parameter is in units of    *)
(* D_LAMBDA, so that D_LAMBDA = 1 (init_ray does not normalise dir, and    *)
(* the geodesic equations are invariant under rescaling lambda together    *)
(* with dir).  ESCAPE_R is EscapeUnits of these lengths, far below the     *)
(* 1e30 m of the source, so that bounded runs reach it; as in the source   *)
(* it lies above the largest radius Vec3::length can return without        *)
(* overflowing f32 (the square root of the largest f32).                   *)
(***************************************************************************)
EXTENDS Integers, Sequences, FiniteSets, TLC

\* ------------------------------------------------------------------ bounds
\* fixed-point steps per unit
ONE == 100
\* largest finite f64 magnitude of the model, in units
F64MaxUnits == 100000
\* largest finite f32 magnitude of the model, in units
F32MaxUnits == 1000
\* ESCAPE_R of the model, in units
EscapeUnits == 40
\* largest max_steps a caller passes
MaxStepsBound == 10
\* most Planet::update calls in a run
MaxUpdates == 3
\* trace_ray calls that run concurrently
NumTracers == 2
\* largest max_steps of a concurrent trace_ray call
MaxTraceSteps == 2
\* most Camera method calls in a run
MaxCameraCalls == 4

\* ------------------------------------------------------ floating point
NaN == [k |-> "nan", v |-> 0]
PInf == [k |-> "inf", v |-> 1]
NInf == [k |-> "inf", v |-> -1]
Fin(n) == [k |-> "fin", v |-> n]
Num(u) == Fin(u * ONE)
IsNaN(x) == x.k = "nan"
IsInf(x) == x.k = "inf"
IsFin(x) == x.k = "fin"
Abs(n) == IF n < 0 THEN -n ELSE n
Sgn(n) == IF n < 0 THEN -1 ELSE IF n > 0 THEN 1 ELSE 0
InfOf(s) == IF s < 0 THEN NInf ELSE PInf
F64Max == F64MaxUnits * ONE
F32Max == F32MaxUnits * ONE

\* a finite result, or the infinity it overflows to
Norm64(n) == IF Abs(n) > F64Max THEN InfOf(n) ELSE Fin(n)

\* `as f32` / `as f64`: the value, or an infinity beyond the f32 range
F32(x) == IF IsFin(x) /\ Abs(x.v) > F32Max THEN InfOf(x.v) ELSE x

\* a / b of naturals, b > 0, rounded to nearest
RoundDiv(a, b) == (a \div b) + (IF 2 * (a % b) >= b THEN 1 ELSE 0)

FNeg(x) == IF IsNaN(x) THEN NaN ELSE [k |-> x.k, v |-> 0 - x.v]

FAdd(a, b) ==
    IF IsNaN(a) \/ IsNaN(b) THEN NaN
    ELSE IF IsInf(a) /\ IsInf(b) THEN (IF a.v = b.v THEN a ELSE NaN)
    ELSE IF IsInf(a) THEN a
    ELSE IF IsInf(b) THEN b
    ELSE Norm64(a.v + b.v)

FSub(a, b) == FAdd(a, FNeg(b))

\* product of two non-negative fixed-point magnitudes; F64Max + 1 on overflow
MulMag(a, b) ==
    LET ah == a \div ONE
        al == a % ONE
        bh == b \div ONE
        bl == b % ONE
    IN  IF ah > 0 /\ bh > 0 /\ ah > (F64MaxUnits \div bh) + 1 THEN F64Max + 1
        ELSE ah * bh * ONE + ah * bl + al * bh + RoundDiv(al * bl, ONE)

FMul(a, b) ==
    IF IsNaN(a) \/ IsNaN(b) THEN NaN
    ELSE IF IsInf(a) \/ IsInf(b)
         THEN (IF a.v = 0 \/ b.v = 0 THEN NaN ELSE InfOf(Sgn(a.v) * Sgn(b.v)))
    ELSE Norm64(Sgn(a.v) * Sgn(b.v) * MulMag(Abs(a.v), Abs(b.v)))

FDiv(a, b) ==
    IF IsNaN(a) \/ IsNaN(b) THEN NaN
    ELSE IF IsInf(a) THEN (IF IsInf(b) THEN NaN
                           ELSE InfOf(a.v * (IF b.v < 0 THEN -1 ELSE 1)))
    ELSE IF IsInf(b) THEN Fin(0)
    ELSE IF b.v = 0 THEN (IF a.v = 0 THEN NaN ELSE InfOf(a.v))
    ELSE Norm64(Sgn(a.v) * Sgn(b.v) * RoundDiv(Abs(a.v) * ONE, Abs(b.v)))

\* largest s in lo..hi with s*s <= n  (lo*lo <= n)
RECURSIVE ISqrtIn(_, _, _)
ISqrtIn(n, lo, hi) ==
    IF lo >= hi THEN lo
    ELSE LET mid == (lo + hi + 1) \div 2
         IN  IF mid * mid <= n THEN ISqrtIn(n, mid, hi) ELSE ISqrtIn(n, lo, mid - 1)

ISqrt(n) ==
    LET s == ISqrtIn(n, 0, 40000)
    IN  IF n - s * s > s THEN s + 1 ELSE s

FSqrt(x) ==
    IF IsNaN(x) THEN NaN
    ELSE IF IsInf(x) THEN (IF x.v > 0 THEN PInf ELSE NaN)
    ELSE IF x.v < 0 THEN NaN
    ELSE Fin(ISqrt(x.v * ONE))

\* comparisons: false whenever an operand is NaN
FLe(a, b) ==
    /\ ~IsNaN(a)
    /\ ~IsNaN(b)
    /\ IF IsInf(a) THEN (a.v < 0 \/ b = PInf)
       ELSE IF IsInf(b) THEN b.v > 0
       ELSE a.v <= b.v

FGt(a, b) == ~IsNaN(a) /\ ~IsNaN(b) /\ ~FLe(a, b)

\* ------------------------------------------------------------ trigonometry
HALF_PI == (355 * ONE) \div 226
PI == 2 * HALF_PI
TWO_PI == 2 * PI

\* sin on [0, PI] (Bhaskara's rational approximation, exact at 0, PI/2, PI)
SinArc(x) ==
    LET p == x * (PI - x)
    IN  RoundDiv(16 * p * ONE, 5 * PI * PI - 4 * p)

SinFix(n) ==
    LET m == n % TWO_PI
    IN  IF m <= PI THEN SinArc(m) ELSE -SinArc(m - PI)

CosFix(n) == SinFix(n + HALF_PI)

FSin(x) == IF IsFin(x) THEN Fin(SinFix(x.v)) ELSE NaN
FCos(x) == IF IsFin(x) THEN Fin(CosFix(x.v)) ELSE NaN

\* acos of c in 0..ONE: the first angle of [0, PI/2] whose cosine is <= c
AcosArc(c) ==
    CHOOSE t \in 0..HALF_PI :
        /\ CosFix(t) <= c
        /\ (t = 0 \/ CosFix(t - 1) > c)

AcosFix(c) == IF c >= 0 THEN AcosArc(c) ELSE PI - AcosArc(-c)

FAcos(x) ==
    IF IsFin(x) /\ Abs(x.v) <= ONE THEN Fin(AcosFix(x.v)) ELSE NaN

\* atan2(y, x) of finite operands
FAtan2(y, x) ==
    IF ~IsFin(y) \/ ~IsFin(x) THEN NaN
    ELSE IF y.v = 0 THEN (IF x.v >= 0 THEN Fin(0) ELSE Fin(PI))
    ELSE LET big == Abs(x.v) > 20000 \/ Abs(y.v) > 20000
             xs == IF big THEN x.v \div ONE ELSE x.v
             ys == IF big THEN y.v \div ONE ELSE y.v
             h == ISqrt(xs * xs + ys * ys)
             a == IF h = 0 THEN HALF_PI
                  ELSE AcosFix(Sgn(xs) * RoundDiv(Abs(xs) * ONE, h))
         IN  IF y.v > 0 THEN Fin(a) ELSE Fin(-a)

\* ---------------------------------------------------------------- constants
G == ONE
C == ONE
SAG_A_MASS == ONE
SAG_A_RS == FDiv(FMul(FMul(Num(2), Fin(G)), Fin(SAG_A_MASS)), FMul(Fin(C), Fin(C)))
D_LAMBDA == Num(1)
ESCAPE_R == Num(EscapeUnits)

\* ------------------------------------------------------------------ glam
Vec3(x, y, z) == [x |-> x, y |-> y, z |-> z]

\* Vec3::length, computed in f32
Length(p) ==
    LET xx == F32(FMul(p.x, p.x))
        yy == F32(FMul(p.y, p.y))
        zz == F32(FMul(p.z, p.z))
    IN  F32(FSqrt(F32(FAdd(F32(FAdd(xx, yy)), zz))))

\* -------------------------------------------------------------- physics.rs
RayNew(r, theta, phi, dr, dtheta, dphi) ==
    [r |-> r, theta |-> theta, phi |-> phi, dr |-> dr, dtheta |-> dtheta,
     dphi |-> dphi, dt |-> Num(1), energy |-> Num(1), angular_momentum |-> Num(0)]

to_cartesian(ray) ==
    LET x == F32(FMul(FMul(ray.r, FSin(ray.theta)), FCos(ray.phi)))
        y == F32(FMul(ray.r, FCos(ray.theta)))
        z == F32(FMul(FMul(ray.r, FSin(ray.theta)), FSin(ray.phi)))
    IN  Vec3(x, y, z)

\* iterations of the Kepler solve, `for _ in 0..10`
KeplerIterations == 10

\* `30.0f32.to_radians()`
Inclination == Fin((30 * PI) \div 180)

Planet(position, velocity, radius, semi_major_axis, eccentricity, mean_motion) ==
    [position |-> position, velocity |-> velocity, radius |-> radius,
     semi_major_axis |-> semi_major_axis, eccentricity |-> eccentricity,
     mean_motion |-> mean_motion]

\* Planet::new_elliptical_orbit; black_hole_mass in units of SAG_A_MASS
new_elliptical_orbit(semi_major_axis_scu, eccentricity, radius, black_hole_mass) ==
    LET r_s0 == FDiv(FMul(FMul(Num(2), Fin(G)), black_hole_mass), FMul(Fin(C), Fin(C)))
        unit_scale == F32(FDiv(F32(r_s0), Num(2)))
        semi_major_axis == F32(FMul(semi_major_axis_scu, unit_scale))
        cube == FMul(FMul(semi_major_axis, semi_major_axis), semi_major_axis)
        mean_motion ==
            F32(FMul(F32(FSqrt(FDiv(FMul(Fin(G), black_hole_mass), cube))), Num(1000)))
        position ==
            Vec3(F32(FMul(semi_major_axis, F32(FSub(Num(1), eccentricity)))),
                 Num(0), Num(0))
    IN  Planet(position, Vec3(Num(0), Num(0), Num(0)), F32(FMul(radius, unit_scale)),
               semi_major_axis, eccentricity, mean_motion)

RECURSIVE KeplerSolve_Cosine(_, _, _, _)
KeplerSolve_Cosine(mean_anomaly, eccentricity, iterates, n) ==
    IF n = 0 THEN iterates
    ELSE LET nxt == F32(FAdd(mean_anomaly,
                             F32(FMul(eccentricity, FCos(iterates[Len(iterates)])))))
         IN  IF IsFin(nxt)
             THEN KeplerSolve_Cosine(mean_anomaly, eccentricity, Append(iterates, nxt), n - 1)
             ELSE KeplerSolve_Cosine(mean_anomaly, eccentricity, Append(iterates, nxt), n - 1)

RECURSIVE KeplerSolve_UntilConverged(_, _, _, _)
KeplerSolve_UntilConverged(mean_anomaly, eccentricity, iterates, n) ==
    IF n = 0 THEN iterates
    ELSE LET nxt == F32(FAdd(mean_anomaly,
                             F32(FMul(eccentricity, FSin(iterates[Len(iterates)])))))
         IN  IF nxt = iterates[Len(iterates)] THEN iterates
             ELSE KeplerSolve_UntilConverged(mean_anomaly, eccentricity,
                                             Append(iterates, nxt), n - 1)

\* the fixed-point iteration E <- M + e sin E, n times: the values
\* eccentric_anomaly takes, from its seed (the only element of iterates at
\* the call) to the last assignment of the loop.  (The iterate is evaluated
\* before the next iteration starts; both branches go on alike.)
RECURSIVE KeplerSolve(_, _, _, _)
KeplerSolve(mean_anomaly, eccentricity, iterates, n) ==
    IF n = 0 THEN iterates
    ELSE LET nxt == F32(FAdd(mean_anomaly,
                             F32(FMul(eccentricity, FSin(iterates[Len(iterates)])))))
         IN  IF IsFin(nxt)
             THEN KeplerSolve(mean_anomaly, eccentricity, Append(iterates, nxt), n - 1)
             ELSE KeplerSolve(mean_anomaly, eccentricity, Append(iterates, nxt), n - 1)

\* what Planet::update computes: <<position, velocity, r, the values of
\* eccentric_anomaly>>
OrbitAt(p, time) ==
    LET a == p.semi_major_axis
        e == p.eccentricity
        mean_anomaly == F32(FMul(p.mean_motion, time))
        trail == KeplerSolve(mean_anomaly, e, <<mean_anomaly>>, KeplerIterations)
        ea == trail[Len(trail)]
        cos_e == FCos(ea)
        sin_e == FSin(ea)
        shape == F32(FSub(Num(1), F32(FMul(e, cos_e))))
        r == F32(FMul(a, shape))
        minor == F32(FSqrt(F32(FSub(Num(1), F32(FMul(e, e))))))
        x_orbit == F32(FMul(a, F32(FSub(cos_e, e))))
        z_orbit == F32(FMul(F32(FMul(a, minor)), sin_e))
        sin_i == FSin(Inclination)
        cos_i == FCos(Inclination)
        vx_orbit == F32(FDiv(F32(FMul(F32(FMul(FNeg(a), p.mean_motion)), sin_e)), shape))
        vz_orbit == F32(FDiv(F32(FMul(F32(FMul(F32(FMul(a, p.mean_motion)), minor)), cos_e)),
                             shape))
    IN  <<Vec3(x_orbit, F32(FMul(z_orbit, sin_i)), F32(FMul(z_orbit, cos_i))),
          Vec3(vx_orbit, F32(FMul(vz_orbit, sin_i)), F32(FMul(vz_orbit, cos_i))),
          r, trail>>

update_StoresRadius(p, time) ==
    LET o == OrbitAt(p, time)
    IN  [p EXCEPT !.position = o[1], !.velocity = o[2], !.semi_major_axis = o[3]]

\* Planet::update
update(p, time) ==
    LET o == OrbitAt(p, time)
    IN  [p EXCEPT !.position = o[1], !.velocity = o[2]]

\* ----------------------------------------------------------- integrator.rs
\* the lapse factor init_ray derives the energy from
InitLapse(r) == FSub(Num(1), FDiv(SAG_A_RS, r))

init_ray(pos, dir) ==
    LET r == Length(pos)
        theta == FAcos(FDiv(pos.z, r))
        phi == FAtan2(pos.y, pos.x)
        dx == dir.x
        dy == dir.y
        dz == dir.z
        st == FSin(theta)
        ct == FCos(theta)
        sp == FSin(phi)
        cp == FCos(phi)
        dr == FAdd(FAdd(FMul(FMul(st, cp), dx), FMul(FMul(st, sp), dy)), FMul(ct, dz))
        dtheta == FDiv(FSub(FAdd(FMul(FMul(ct, cp), dx), FMul(FMul(ct, sp), dy)),
                            FMul(st, dz)), r)
        dphi == FDiv(FAdd(FMul(FNeg(sp), dx), FMul(cp, dy)), FMul(r, st))
        angular_momentum == FMul(FMul(FMul(r, r), st), dphi)
        f == InitLapse(r)
        dt_dl == FSqrt(FAdd(FDiv(FMul(dr, dr), f),
                            FMul(FMul(r, r),
                                 FAdd(FMul(dtheta, dtheta),
                                      FMul(FMul(FMul(st, st), dphi), dphi)))))
        energy == FMul(f, dt_dl)
    IN  [r |-> r, theta |-> theta, phi |-> phi, dr |-> dr, dtheta |-> dtheta,
         dphi |-> dphi, dt |-> dt_dl, energy |-> energy,
         angular_momentum |-> angular_momentum]

\* <<d1, d2>>: the rates and the accelerations, each a Vec3 of f32
geodesic_rhs(ray, rs) ==
    LET r == ray.r
        theta == ray.theta
        dr == ray.dr
        dtheta == ray.dtheta
        dphi == ray.dphi
        st == FSin(theta)
        ct == FCos(theta)
        f == FSub(Num(1), FDiv(rs, r))
        dt_dl == FDiv(ray.energy, f)
        tworr == FMul(FMul(Num(2), r), r)
        d1 == Vec3(F32(dr), F32(dtheta), F32(dphi))
        d2r == FAdd(FAdd(FMul(FMul(FMul(FNeg(FDiv(rs, tworr)), f), dt_dl), dt_dl),
                         FMul(FMul(FDiv(rs, FMul(tworr, f)), dr), dr)),
                    FMul(r, FAdd(FMul(dtheta, dtheta),
                                 FMul(FMul(FMul(st, st), dphi), dphi))))
        d2theta == FAdd(FDiv(FMul(FMul(Num(-2), dr), dtheta), r),
                        FMul(FMul(FMul(st, ct), dphi), dphi))
        d2phi == FSub(FDiv(FMul(FMul(Num(-2), dr), dphi), r),
                      FMul(FMul(FDiv(FMul(Num(2), ct), st), dtheta), dphi))
        d2 == Vec3(F32(d2r), F32(d2theta), F32(d2phi))
    IN  <<d1, d2>>

rk4_step_Backward(ray, dl, rs) ==
    LET k == geodesic_rhs(ray, rs)
        k1a == k[1]
        k1b == k[2]
    IN  [ray EXCEPT !.r = FSub(ray.r, FMul(dl, k1a.x)),
                    !.theta = FAdd(ray.theta, FMul(dl, k1a.y)),
                    !.phi = FAdd(ray.phi, FMul(dl, k1a.z)),
                    !.dr = FAdd(ray.dr, FMul(dl, k1b.x)),
                    !.dtheta = FAdd(ray.dtheta, FMul(dl, k1b.y)),
                    !.dphi = FAdd(ray.dphi, FMul(dl, k1b.z))]

rk4_step_SemiImplicit(ray, dl, rs) ==
    LET k == geodesic_rhs(ray, rs)
        k1b == k[2]
        dr == FAdd(ray.dr, FMul(dl, k1b.x))
        dtheta == FAdd(ray.dtheta, FMul(dl, k1b.y))
        dphi == FAdd(ray.dphi, FMul(dl, k1b.z))
    IN  [ray EXCEPT !.r = FAdd(ray.r, FMul(dl, F32(dr))),
                    !.theta = FAdd(ray.theta, FMul(dl, F32(dtheta))),
                    !.phi = FAdd(ray.phi, FMul(dl, F32(dphi))),
                    !.dr = dr,
                    !.dtheta = dtheta,
                    !.dphi = dphi]

rk4_step_RewritesEnergy(ray, dl, rs) ==
    LET k == geodesic_rhs(ray, rs)
        k1a == k[1]
        k1b == k[2]
        r == FAdd(ray.r, FMul(dl, k1a.x))
    IN  [ray EXCEPT !.r = r,
                    !.theta = FAdd(ray.theta, FMul(dl, k1a.y)),
                    !.phi = FAdd(ray.phi, FMul(dl, k1a.z)),
                    !.dr = FAdd(ray.dr, FMul(dl, k1b.x)),
                    !.dtheta = FAdd(ray.dtheta, FMul(dl, k1b.y)),
                    !.dphi = FAdd(ray.dphi, FMul(dl, k1b.z)),
                    !.energy = FMul(FSub(Num(1), FDiv(rs, r)), ray.dt)]

rk4_step(ray, dl, rs) ==
    LET k == geodesic_rhs(ray, rs)
        k1a == k[1]
        k1b == k[2]
    IN  [ray EXCEPT !.r = FAdd(ray.r, FMul(dl, k1a.x)),
                    !.theta = FAdd(ray.theta, FMul(dl, k1a.y)),
                    !.phi = FAdd(ray.phi, FMul(dl, k1a.z)),
                    !.dr = FAdd(ray.dr, FMul(dl, k1b.x)),
                    !.dtheta = FAdd(ray.dtheta, FMul(dl, k1b.y)),
                    !.dphi = FAdd(ray.dphi, FMul(dl, k1b.z))]

AtHorizon_Strict(ray, rs) == FGt(rs, ray.r)

\* `ray.r <= r_s`, the first test of the loop body
AtHorizon(ray, rs) == FLe(ray.r, rs)

HasEscaped_Swapped(ray) == FGt(ESCAPE_R, ray.r)

\* `ray.r > ESCAPE_R`, the test after the step
HasEscaped(ray) == FGt(ray.r, ESCAPE_R)

NextIteration_Stuck(n) == n

\* the loop `for _ in 0..max_steps` goes on to its next iteration
NextIteration(n) == n + 1

TraceResult == {"HitBlackHole", "HitDisk", "HitObject", "Escaped", "MaxSteps"}

\* the loop of trace_ray with n iterations left
RECURSIVE trace_loop(_, _, _)
trace_loop(q, rs, n) ==
    IF n = 0 THEN "MaxSteps"
    ELSE IF AtHorizon(q, rs) THEN "HitBlackHole"
    ELSE LET stepped == rk4_step(q, D_LAMBDA, rs)
         IN  IF HasEscaped(stepped) THEN "Escaped"
             ELSE trace_loop(stepped, rs, n - 1)

\* trace_ray, run alone from its call to its return
trace_ray(p, d, rs, ms) == trace_loop(init_ray(p, d), rs, ms)

\* ---------------------------------------------------------------- camera.rs
\* The camera's lengths are in units of 1e10 m, its angles in radians, the
\* pointer coordinates in pixels and the scroll offsets in wheel notches.
Camera(radius, azimuth, elevation, dragging, moving, last_x, last_y) ==
    [target |-> Vec3(Num(0), Num(0), Num(0)),
     radius |-> radius,
     min_radius |-> Num(1),
     max_radius |-> Num(100),
     azimuth |-> azimuth,
     elevation |-> elevation,
     orbit_speed |-> Fin(ONE \div 100),
     zoom_speed |-> Fin((25 * ONE) \div 10),
     dragging |-> dragging,
     moving |-> moving,
     last_x |-> last_x,
     last_y |-> last_y]

\* Camera::new
CameraNew ==
    Camera(Fin((167 * ONE) \div 10), Num(0), Fin((166 * ONE) \div 100),
           FALSE, FALSE, Num(0), Num(0))

\* f32::clamp: a NaN is returned as it is
Clamp(x, lo, hi) == IF FGt(lo, x) THEN lo ELSE IF FGt(x, hi) THEN hi ELSE x

\* the bounds of the elevation, 0.01 and PI - 0.01
ElevationMin == Fin(ONE \div 100)
ElevationMax == Fin(PI - (ONE \div 100))

\* Camera::update
camera_update(c) ==
    [c EXCEPT !.target = Vec3(Num(0), Num(0), Num(0)), !.moving = c.dragging]

\* Camera::process_mouse_move
process_mouse_move(c, x, y) ==
    LET dx == F32(FSub(x, c.last_x))
        dy == F32(FSub(y, c.last_y))
        azimuth == F32(FAdd(c.azimuth, F32(FMul(dx, c.orbit_speed))))
        elevation == F32(FSub(c.elevation, F32(FMul(dy, c.orbit_speed))))
        turned == IF c.dragging
                  THEN [c EXCEPT !.azimuth = azimuth,
                                 !.elevation = Clamp(elevation, ElevationMin, ElevationMax)]
                  ELSE c
    IN  camera_update([turned EXCEPT !.last_x = x, !.last_y = y])

process_mouse_button_Syncs(c, button, pressed, x, y) ==
    IF button = 0
    THEN IF pressed
         THEN [c EXCEPT !.dragging = TRUE, !.moving = TRUE, !.last_x = x, !.last_y = y]
         ELSE [c EXCEPT !.dragging = FALSE, !.moving = FALSE]
    ELSE c

\* Camera::process_mouse_button
process_mouse_button(c, button, pressed, x, y) ==
    IF button = 0
    THEN IF pressed
         THEN [c EXCEPT !.dragging = TRUE, !.last_x = x, !.last_y = y]
         ELSE [c EXCEPT !.dragging = FALSE]
    ELSE c

\* Camera::process_scroll
process_scroll(c, yoffset) ==
    LET radius == F32(FSub(c.radius, F32(FMul(F32(yoffset), c.zoom_speed))))
    IN  camera_update([c EXCEPT !.radius = Clamp(radius, c.min_radius, c.max_radius)])

\* ------------------------------------------------------------------ inputs
\* ray origins and directions, in quarters of a unit.  No origin lies on the
\* negative z axis: there the source has theta = PI as an f64, whose sine is
\* 1.2e-16 and not 0.
Positions ==
    { <<0, 0, 0>>, <<0, 0, 24>>, <<4, 0, 0>>, <<8, 0, 0>>, <<12, 0, 0>>,
      <<24, 0, 0>>, <<-24, 0, 0>>, <<0, 24, 0>>, <<12, 0, 16>>, <<8, 8, 4>>,
      <<120, 0, 0>>, <<144, 0, 0>> }
Directions ==
    { <<4, 0, 0>>, <<-4, 0, 0>>, <<-2, 0, 0>>, <<0, 4, 0>>, <<0, 0, 4>>,
      <<0, -8, 0>>, <<16, 0, 0>> }
RsValues == {1, 2, 3}
Quarters(n) == Fin((n * ONE) \div 4)
ToVec(t) == Vec3(Quarters(t[1]), Quarters(t[2]), Quarters(t[3]))

\* ------------------------------------------------------------------- state
VARIABLES
    pc,         \* position of trace_ray: "idle", "loop", "stepped", "done"
    pos, dir,   \* arguments of trace_ray
    r_s, max_steps,
    ray,        \* the local `ray`
    i,          \* iterations of the for loop completed or under way
    result,     \* the TraceResult returned, "none" before
    start,      \* the Ray init_ray returned (history)
    hist,       \* per rk4_step call: the radius and the Ray before and after
                \* it (history)
    cart,       \* <<to_cartesian(init_ray(pos, dir))>>, <<>> before
    planet,     \* the Planet of the renderer
    built,      \* the Planet as new_elliptical_orbit returned it (history)
    updates,    \* Planet::update calls so far; -1 before the Planet exists
    times,      \* the `time` argument of each Planet::update call (history)
    kepler,     \* the values eccentric_anomaly took in the last update (history)
    traces,     \* concurrent trace_ray calls: the locals of each
    camera,     \* the Camera of the renderer
    synced,     \* `dragging` at the end of the last move, scroll or update (history)
    last_call,  \* the Camera method called last, "new" before (history)
    finite_args, \* every f64 argument passed to the Camera so far was finite (history)
    calls       \* Camera method calls so far

rayvars == <<pc, pos, dir, r_s, max_steps, ray, i, result, start, hist, cart>>
planetvars == <<planet, built, updates, times, kepler>>
tracevars == <<traces>>
cameravars == <<camera, synced, last_call, finite_args, calls>>
vars == <<rayvars, planetvars, tracevars, cameravars>>

nsteps == Len(hist)

ZeroVec == Vec3(Num(0), Num(0), Num(0))
ZeroRay == RayNew(Num(0), Num(0), Num(0), Num(0), Num(0), Num(0))

ZeroPlanet == Planet(ZeroVec, ZeroVec, Num(0), Num(0), Num(0), Num(0))

\* the traces that run concurrently, and the locals of one not yet called
Tracers == 1..NumTracers
IdleTrace ==
    [pc |-> "idle", pos |-> ZeroVec, dir |-> ZeroVec, r_s |-> Num(0), max_steps |-> 0,
     ray |-> ZeroRay, i |-> 0, result |-> "none"]

Init ==
    /\ pc = "idle"
    /\ pos = ZeroVec
    /\ dir = ZeroVec
    /\ r_s = Num(0)
    /\ max_steps = 0
    /\ ray = ZeroRay
    /\ i = 0
    /\ result = "none"
    /\ start = ZeroRay
    /\ hist = <<>>
    /\ cart = <<>>
    /\ planet = ZeroPlanet
    /\ built = ZeroPlanet
    /\ updates = -1
    /\ times = <<>>
    /\ kepler = <<>>
    /\ traces = [t \in Tracers |-> IdleTrace]
    /\ camera = CameraNew
    /\ synced = FALSE
    /\ last_call = "new"
    /\ finite_args = TRUE
    /\ calls = 0

\* trace_ray is called: `let mut ray = init_ray(pos, dir);`
TraceRay(p, d, rs, ms) ==
    /\ pc = "idle"
    /\ pos' = p
    /\ dir' = d
    /\ r_s' = rs
    /\ max_steps' = ms
    /\ ray' = init_ray(p, d)
    /\ start' = ray'
    /\ i' = 0
    /\ pc' = "loop"
    /\ UNCHANGED <<result, hist, cart, planetvars, tracevars, cameravars>>

LoopExit_HitDisk ==
    /\ pc = "loop"
    /\ i >= max_steps
    /\ result' = "HitDisk"
    /\ pc' = "done"
    /\ UNCHANGED <<pos, dir, r_s, max_steps, ray, i, start, hist, cart, planetvars, tracevars, cameravars>>

\* the range 0..max_steps is exhausted: `TraceResult::MaxSteps`
LoopExit ==
    /\ pc = "loop"
    /\ i >= max_steps
    /\ result' = "MaxSteps"
    /\ pc' = "done"
    /\ UNCHANGED <<pos, dir, r_s, max_steps, ray, i, start, hist, cart, planetvars, tracevars, cameravars>>

\* `if ray.r <= r_s { return TraceResult::HitBlackHole; }`
HorizonHit ==
    /\ pc = "loop"
    /\ i < max_steps
    /\ AtHorizon(ray, r_s)
    /\ result' = "HitBlackHole"
    /\ pc' = "done"
    /\ UNCHANGED <<pos, dir, r_s, max_steps, ray, i, start, hist, cart, planetvars, tracevars, cameravars>>

\* `rk4_step(&mut ray, D_LAMBDA, r_s);`
Step ==
    /\ pc = "loop"
    /\ i < max_steps
    /\ ~AtHorizon(ray, r_s)
    /\ ray' = rk4_step(ray, D_LAMBDA, r_s)
    /\ hist' = Append(hist, [before |-> ray.r, after |-> ray'.r,
                             pre |-> ray, post |-> ray'])
    /\ pc' = "stepped"
    /\ UNCHANGED <<pos, dir, r_s, max_steps, i, result, start, cart, planetvars, tracevars, cameravars>>

\* `if ray.r > ESCAPE_R { return TraceResult::Escaped; }`
EscapeHit ==
    /\ pc = "stepped"
    /\ HasEscaped(ray)
    /\ result' = "Escaped"
    /\ pc' = "done"
    /\ UNCHANGED <<pos, dir, r_s, max_steps, ray, i, start, hist, cart, planetvars, tracevars, cameravars>>

\* the end of the loop body: on to the next iteration
Continue ==
    /\ pc = "stepped"
    /\ ~HasEscaped(ray)
    /\ i' = NextIteration(i)
    /\ pc' = "loop"
    /\ UNCHANGED <<pos, dir, r_s, max_steps, ray, result, start, hist, cart, planetvars, tracevars, cameravars>>

\* `init_ray(pos, dir).to_cartesian()`: the conversion back, on the fresh Ray
ToCartesian ==
    /\ pc = "loop"
    /\ i = 0
    /\ cart = <<>>
    /\ cart' = <<to_cartesian(ray)>>
    /\ UNCHANGED <<pc, pos, dir, r_s, max_steps, ray, i, result, start, hist, planetvars, tracevars, cameravars>>

Next ==
    \/ \E p \in Positions, d \in Directions, rs \in RsValues, ms \in 0..MaxStepsBound :
          TraceRay(ToVec(p), ToVec(d), Num(rs), ms)
    \/ LoopExit
    \/ HorizonHit
    \/ Step
    \/ EscapeHit
    \/ Continue
    \/ ToCartesian

\* the ray tracer
Spec == Init /\ [][Next]_vars

\* ------------------------------------------------------------------ planet
\* orbital elements: semi-major axis (units), eccentricity (quarters), body
\* radius (quarters), central mass (SAG_A_MASS); frame times in quarters
AxisValues == {2, 3, 4}
EccValues == {0, 1, 2, 3}
RadiusValues == {2}
MassValues == {1, 2}
Times == {0, 1, 2, 5, 9}

\* `Planet::new_elliptical_orbit(..)` in the renderer's constructor
NewPlanet(a, e, rad, m) ==
    /\ updates = -1
    /\ planet' = new_elliptical_orbit(a, e, rad, m)
    /\ built' = planet'
    /\ updates' = 0
    /\ UNCHANGED <<times, kepler, rayvars, tracevars, cameravars>>

\* `self.planet.update(elapsed_time)`, once per frame
Update(t) ==
    /\ updates >= 0
    /\ updates < MaxUpdates
    /\ planet' = update(planet, t)
    /\ updates' = updates + 1
    /\ times' = Append(times, t)
    /\ kepler' = OrbitAt(planet, t)[4]
    /\ UNCHANGED <<built, rayvars, tracevars, cameravars>>

NextPlanet ==
    \/ \E a \in AxisValues, e \in EccValues, rad \in RadiusValues, m \in MassValues :
          NewPlanet(Num(a), Quarters(e), Quarters(rad), Num(m))
    \/ \E t \in Times : Update(Quarters(t))

\* the orbiting body
SpecPlanet == Init /\ [][NextPlanet]_vars

\* ------------------------------------------------------- concurrent traces
\* origins, directions (quarters of a unit) and r_s of the concurrent calls
TracePositions == { <<4, 0, 0>>, <<24, 0, 0>>, <<144, 0, 0>> }
TraceDirections == { <<16, 0, 0>> }
TraceRsValues == {2}

LocalRay_Shared(tr, t) == tr[1].ray

\* the Ray a trace reads and steps: its own local `ray`
LocalRay(tr, t) == tr[t].ray

\* trace t is called: `let mut ray = init_ray(pos, dir);`
TraceCall(t, p, d, rs, ms) ==
    /\ traces[t].pc = "idle"
    /\ traces' = [traces EXCEPT ![t] =
                     [pc |-> "loop", pos |-> p, dir |-> d, r_s |-> rs, max_steps |-> ms,
                      ray |-> init_ray(p, d), i |-> 0, result |-> "none"]]
    /\ UNCHANGED <<rayvars, planetvars, cameravars>>

\* trace t: the range 0..max_steps is exhausted
TraceLoopExit(t) ==
    /\ traces[t].pc = "loop"
    /\ traces[t].i >= traces[t].max_steps
    /\ traces' = [traces EXCEPT ![t].result = "MaxSteps", ![t].pc = "done"]
    /\ UNCHANGED <<rayvars, planetvars, cameravars>>

\* trace t: `if ray.r <= r_s { return TraceResult::HitBlackHole; }`
TraceHorizonHit(t) ==
    /\ traces[t].pc = "loop"
    /\ traces[t].i < traces[t].max_steps
    /\ AtHorizon(LocalRay(traces, t), traces[t].r_s)
    /\ traces' = [traces EXCEPT ![t].result = "HitBlackHole", ![t].pc = "done"]
    /\ UNCHANGED <<rayvars, planetvars, cameravars>>

\* trace t: `rk4_step(&mut ray, D_LAMBDA, r_s);`
TraceStep(t) ==
    /\ traces[t].pc = "loop"
    /\ traces[t].i < traces[t].max_steps
    /\ ~AtHorizon(LocalRay(traces, t), traces[t].r_s)
    /\ traces' = [traces EXCEPT
                     ![t].ray = rk4_step(LocalRay(traces, t), D_LAMBDA, traces[t].r_s),
                     ![t].pc = "stepped"]
    /\ UNCHANGED <<rayvars, planetvars, cameravars>>

\* trace t: `if ray.r > ESCAPE_R { return TraceResult::Escaped; }`
TraceEscapeHit(t) ==
    /\ traces[t].pc = "stepped"
    /\ HasEscaped(LocalRay(traces, t))
    /\ traces' = [traces EXCEPT ![t].result = "Escaped", ![t].pc = "done"]
    /\ UNCHANGED <<rayvars, planetvars, cameravars>>

\* trace t: the end of the loop body
TraceContinue(t) ==
    /\ traces[t].pc = "stepped"
    /\ ~HasEscaped(LocalRay(traces, t))
    /\ traces' = [traces EXCEPT ![t].i = NextIteration(traces[t].i), ![t].pc = "loop"]
    /\ UNCHANGED <<rayvars, planetvars, cameravars>>

NextTraces ==
    \/ \E t \in Tracers, p \in TracePositions, d \in TraceDirections,
          rs \in TraceRsValues, ms \in 0..MaxTraceSteps :
          TraceCall(t, ToVec(p), ToVec(d), Num(rs), ms)
    \/ \E t \in Tracers : TraceLoopExit(t)
    \/ \E t \in Tracers : TraceHorizonHit(t)
    \/ \E t \in Tracers : TraceStep(t)
    \/ \E t \in Tracers : TraceEscapeHit(t)
    \/ \E t \in Tracers : TraceContinue(t)

\* several traces, interleaved step by step
SpecTraces == Init /\ [][NextTraces]_vars

\* ------------------------------------------------------------------ camera
\* pointer coordinates (pixels), scroll offsets (notches) and mouse buttons
PointerValues == {Num(0), Num(200), NaN, PInf}
ScrollValues == {Num(1), Num(10), Num(-40), NaN}
Buttons == {0, 1}

\* `self.camera.process_mouse_move(x, y)`
ProcessMouseMove(x, y) ==
    /\ calls < MaxCameraCalls
    /\ camera' = process_mouse_move(camera, x, y)
    /\ synced' = camera'.dragging
    /\ last_call' = "process_mouse_move"
    /\ finite_args' = (finite_args /\ IsFin(x) /\ IsFin(y))
    /\ calls' = calls + 1
    /\ UNCHANGED <<rayvars, planetvars, tracevars>>

\* `self.camera.process_mouse_button(button, pressed, x, y)`
ProcessMouseButton(button, pressed, x, y) ==
    /\ calls < MaxCameraCalls
    /\ camera' = process_mouse_button(camera, button, pressed, x, y)
    /\ last_call' = "process_mouse_button"
    /\ finite_args' = (finite_args /\ IsFin(x) /\ IsFin(y))
    /\ calls' = calls + 1
    /\ UNCHANGED <<synced, rayvars, planetvars, tracevars>>

\* `self.camera.process_scroll(delta_y)`
ProcessScroll(yoffset) ==
    /\ calls < MaxCameraCalls
    /\ camera' = process_scroll(camera, yoffset)
    /\ synced' = camera'.dragging
    /\ last_call' = "process_scroll"
    /\ finite_args' = (finite_args /\ IsFin(yoffset))
    /\ calls' = calls + 1
    /\ UNCHANGED <<rayvars, planetvars, tracevars>>

\* a call of the public Camera::update
CameraUpdate ==
    /\ calls < MaxCameraCalls
    /\ camera' = camera_update(camera)
    /\ synced' = camera'.dragging
    /\ last_call' = "update"
    /\ calls' = calls + 1
    /\ UNCHANGED <<finite_args, rayvars, planetvars, tracevars>>

NextCamera ==
    \/ \E x \in PointerValues, y \in PointerValues : ProcessMouseMove(x, y)
    \/ \E button \in Buttons, pressed \in BOOLEAN, x \in PointerValues,
          y \in PointerValues : ProcessMouseButton(button, pressed, x, y)
    \/ \E yoffset \in ScrollValues : ProcessScroll(yoffset)
    \/ CameraUpdate

\* the orbit camera
SpecCamera == Init /\ [][NextCamera]_vars

\* ------------------------------------------------------------------ claims
Called == pc # "idle"
Done == pc = "done"
StartsRadial == start.dtheta = Num(0) /\ start.dphi = Num(0)
RadialOut == Called /\ StartsRadial /\ FGt(start.dr, Num(0))
RadialIn == Called /\ StartsRadial /\ FGt(Num(0), start.dr)
RayIsFinite(q) ==
    /\ IsFin(q.r) /\ IsFin(q.theta) /\ IsFin(q.phi)
    /\ IsFin(q.dr) /\ IsFin(q.dtheta) /\ IsFin(q.dphi)
    /\ IsFin(q.dt) /\ IsFin(q.energy) /\ IsFin(q.angular_momentum)

\* C1 as stated: whatever max_steps is, a ray that starts with r <= r_s is
\* returned as HitBlackHole without an integration step.
C1_AsStated ==
    (Done /\ FLe(start.r, r_s)) => (result = "HitBlackHole" /\ nsteps = 0)

\* C1, amended: for max_steps >= 1 a ray that starts with r <= r_s never takes
\* an integration step and is returned as HitBlackHole; for max_steps = 0 the
\* loop body never runs, no step is taken and the result is MaxSteps.
C1_HorizonFirst ==
    (Called /\ FLe(start.r, r_s)) =>
        /\ nsteps = 0
        /\ Done => result = (IF max_steps >= 1 THEN "HitBlackHole" ELSE "MaxSteps")

C1_Witness ==
    Done /\ FLe(start.r, r_s) /\ start.r = r_s /\ max_steps >= 1
         /\ result = "HitBlackHole"

\* C2 as stated: a ray that starts beyond ESCAPE_R is returned as Escaped with
\* no call of rk4_step (read for a caller that allows at least one step).
C2_AsStated ==
    (Called /\ FGt(start.r, ESCAPE_R) /\ max_steps >= 1) =>
        /\ nsteps = 0
        /\ Done => result = "Escaped"

\* C2, amended: Escaped is never returned before an rk4_step has run; a ray
\* that starts beyond ESCAPE_R (and above r_s, with max_steps >= 1) takes one
\* rk4_step, and is returned as Escaped right after it when its radius still
\* exceeds ESCAPE_R then.
C2_EscapeAfterOneStep ==
    /\ result = "Escaped" => nsteps >= 1
    /\ (Done /\ FGt(start.r, ESCAPE_R) /\ ~FLe(start.r, r_s) /\ max_steps >= 1) =>
          /\ nsteps >= 1
          /\ FGt(hist[1].after, ESCAPE_R) => (result = "Escaped" /\ nsteps = 1)

C2_Witness ==
    Done /\ FGt(start.r, ESCAPE_R) /\ result = "Escaped" /\ nsteps = 1

\* C3: every call of rk4_step is made on a ray state with r > r_s.
C3_StepsOnlyOutside ==
    \A n \in 1..nsteps : FGt(hist[n].before, r_s)

\* what is left of a trace: falls with every step of trace_ray, 0 at its return
Remaining ==
    IF pc = "idle" THEN 2 * MaxStepsBound + 4
    ELSE IF Done THEN 0
    ELSE 2 * (max_steps - i) + (IF pc = "loop" THEN 2 ELSE 1)
           + (IF pc = "loop" /\ i = 0 /\ cart = <<>> THEN 1 ELSE 0)

\* C3 and C5 do hold of the traces that init_ray starts with a finite Ray: the
\* radius turns NaN only after init_ray left a non-finite component.
FiniteStartStaysOrdered ==
    RayIsFinite(start) =>
        /\ ~IsNaN(ray.r)
        /\ \A n \in 1..nsteps : FGt(hist[n].before, r_s)

\* C4: trace_ray returns for every input (each of its steps brings the return
\* nearer, by a measure that max_steps bounds), and never takes more than
\* max_steps integration steps.
C4_Terminates ==
    /\ [][Remaining' < Remaining]_vars
    /\ [](Remaining >= 0 /\ nsteps <= max_steps /\ i <= max_steps)
    /\ [](Done => result \in TraceResult)

C4_Witness ==
    Done /\ result = "MaxSteps" /\ nsteps = max_steps /\ max_steps = MaxStepsBound

\* C5: MaxSteps is returned exactly when max_steps steps were taken, each from
\* r > r_s and each ending at r <= ESCAPE_R.
C5_MaxStepsExactly ==
    Done =>
        ((result = "MaxSteps") <=>
            /\ nsteps = max_steps
            /\ \A n \in 1..nsteps :
                  FGt(hist[n].before, r_s) /\ FLe(hist[n].after, ESCAPE_R))

\* C6 as stated: a radially outward ray from r0 > r_s is returned as Escaped
\* (read for a caller that allows at least one step).
C6_AsStated ==
    (Done /\ RadialOut /\ FGt(start.r, r_s) /\ max_steps >= 1) => result = "Escaped"

\* C6, amended: a radially outward ray from r0 > r_s (r_s > 0) is never
\* returned as HitBlackHole: its radius never falls, and the result is Escaped,
\* or MaxSteps when the budget ends before the radius exceeds ESCAPE_R.
C6_OutwardNeverHits ==
    (RadialOut /\ FGt(start.r, r_s)) =>
        /\ \A n \in 1..nsteps : ~FGt(hist[n].before, hist[n].after)
        /\ Done => result \in {"Escaped", "MaxSteps"}

C6_Witness ==
    Done /\ RadialOut /\ FGt(start.r, r_s) /\ IsFin(start.r)
         /\ result = "Escaped" /\ nsteps >= 2

\* the steps a radial ray of constant speed |dr| would need to cover r0, twice
InwardBudget == 2 * (Abs(start.r.v) \div Abs(start.dr.v)) + 2

\* C7: a ray aimed straight at the black hole from r0 > r_s reaches r <= r_s
\* within a bounded number of steps and is returned as HitBlackHole.
C7_InwardHits ==
    (Done /\ RadialIn /\ FGt(start.r, r_s) /\ IsFin(start.r)
          /\ max_steps >= InwardBudget)
        => result = "HitBlackHole"

\* C7 does hold of the rays whose energy init_ray could compute.
InwardHitsWithFiniteEnergy ==
    (Done /\ RadialIn /\ FGt(start.r, r_s) /\ IsFin(start.r) /\ IsFin(start.energy)
          /\ max_steps >= InwardBudget)
        => result = "HitBlackHole"

Singular(p) == p.x = Num(0) /\ p.y = Num(0)

\* C8: no integration step is taken on a ray from a singular origin whose
\* state init_ray left with a non-finite component.
C8_SingularRejected ==
    (Called /\ Singular(pos) /\ nsteps >= 1) => RayIsFinite(start)

\* components agree within the tolerance of the round trip
Tolerance == ONE \div 4
Near(a, b) == IsFin(a) /\ IsFin(b) /\ Abs(a.v - b.v) <= Tolerance

\* C9: init_ray followed by to_cartesian gives back (x, y, z), axis by axis,
\* for every non-singular position.
C9_RoundTrip ==
    (cart # <<>> /\ ~Singular(pos) /\ IsFin(start.r)) =>
        /\ Near(cart[1].x, pos.x)
        /\ Near(cart[1].y, pos.y)
        /\ Near(cart[1].z, pos.z)

\* C10: through any sequence of update calls, semi_major_axis, eccentricity,
\* mean_motion and radius keep the values new_elliptical_orbit gave them.
C10_ElementsKept ==
    updates >= 0 =>
        /\ planet.semi_major_axis = built.semi_major_axis
        /\ planet.eccentricity = built.eccentricity
        /\ planet.mean_motion = built.mean_motion
        /\ planet.radius = built.radius

C10_Witness ==
    /\ updates >= 2
    /\ planet.position # built.position
    /\ planet.velocity # built.velocity
    /\ IsFin(planet.position.x) /\ IsFin(planet.velocity.x)
    /\ planet.semi_major_axis = built.semi_major_axis

\* the `time` of the last Planet::update call
LastTime == times[Len(times)]

\* the periapsis point (a (1 - e), 0, 0)
Periapsis ==
    Vec3(F32(FMul(built.semi_major_axis, F32(FSub(Num(1), built.eccentricity)))),
         Num(0), Num(0))

EccentricOrbit == FGt(built.eccentricity, Num(0)) /\ FGt(Num(1), built.eccentricity)

\* C11: for 0 < e < 1, update(0) puts the body at the periapsis point
\* (a (1 - e), 0, 0), the position new_elliptical_orbit gave it, whatever
\* updates came before (orbits with a > 0 and a finite mean_motion).
C11_UpdateZeroAtPeriapsis ==
    (updates >= 1 /\ LastTime = Num(0) /\ EccentricOrbit) =>
        /\ planet.position = Periapsis
        /\ planet.position = built.position

C11_Witness ==
    /\ updates >= 2
    /\ LastTime = Num(0)
    /\ times[1] # Num(0)
    /\ EccentricOrbit
    /\ planet.position = built.position
    /\ FGt(planet.position.x, Num(0))

\* C12: whatever the interleaving, a trace that has returned holds the result
\* trace_ray gives when run alone on its (pos, dir, r_s, max_steps).
C12_TracesIndependent ==
    \A t \in Tracers :
        traces[t].pc = "done" =>
            traces[t].result =
                trace_ray(traces[t].pos, traces[t].dir, traces[t].r_s, traces[t].max_steps)

C12_Witness ==
    /\ traces[1].pc = "done" /\ traces[1].result = "Escaped"
    /\ traces[2].pc = "done" /\ traces[2].result = "MaxSteps" /\ traces[2].max_steps >= 1

\* the stepwise trace_ray of Spec returns what trace_ray run alone returns
SequentialAgrees ==
    Done => result = trace_ray(pos, dir, r_s, max_steps)

\* C13: trace_ray returns HitBlackHole, Escaped or MaxSteps, and never the
\* declared outcomes HitDisk and HitObject.
C13_ThreeOutcomes ==
    /\ {"HitDisk", "HitObject"} \subseteq TraceResult
    /\ result \in {"none", "HitBlackHole", "Escaped", "MaxSteps"}
    /\ Done => result \in {"HitBlackHole", "Escaped", "MaxSteps"}

C13_Witness ==
    Done /\ result = "HitBlackHole" /\ nsteps >= 1

\* the lapse factor 1 - r_s / r of the r_s that trace_ray was called with
LapseOf(rs, r) == FSub(Num(1), FDiv(rs, r))

\* C14: init_ray derives the energy from the lapse factor of the r_s argument
\* of trace_ray: energy = (1 - r_s / r) * dt/dlambda.
C14_LapseFromRs ==
    Called =>
        /\ InitLapse(start.r) = LapseOf(r_s, start.r)
        /\ start.energy = FMul(LapseOf(r_s, start.r), start.dt)

\* C15: a step adds dl times one evaluation of the right-hand side, taken on
\* the state before the step, to each of r, theta, phi, dr, dtheta, dphi: the
\* positions advance by the rates of the state before the step.
C15_SingleEuler ==
    \A n \in 1..nsteps :
        LET q == hist[n].pre
            w == hist[n].post
            d2 == geodesic_rhs(q, r_s)[2]
        IN  /\ w.r = FAdd(q.r, FMul(D_LAMBDA, F32(q.dr)))
            /\ w.theta = FAdd(q.theta, FMul(D_LAMBDA, F32(q.dtheta)))
            /\ w.phi = FAdd(q.phi, FMul(D_LAMBDA, F32(q.dphi)))
            /\ w.dr = FAdd(q.dr, FMul(D_LAMBDA, d2.x))
            /\ w.dtheta = FAdd(q.dtheta, FMul(D_LAMBDA, d2.y))
            /\ w.dphi = FAdd(q.dphi, FMul(D_LAMBDA, d2.z))

C15_Witness ==
    /\ nsteps >= 1
    /\ RayIsFinite(hist[nsteps].pre)
    /\ RayIsFinite(hist[nsteps].post)
    /\ hist[nsteps].post.dr # hist[nsteps].pre.dr
    /\ hist[nsteps].post.dphi # hist[nsteps].pre.dphi
    /\ hist[nsteps].post.r # FAdd(hist[nsteps].pre.r, FMul(D_LAMBDA, F32(hist[nsteps].post.dr)))

\* C16: energy and angular_momentum keep the values init_ray gave them through
\* every rk4_step of the trace, so each step divides that energy by its lapse.
C16_ConservedKept ==
    Called =>
        /\ ray.energy = start.energy
        /\ ray.angular_momentum = start.angular_momentum
        /\ \A n \in 1..nsteps :
              /\ hist[n].pre.energy = start.energy
              /\ hist[n].post.energy = start.energy
              /\ hist[n].pre.angular_momentum = start.angular_momentum
              /\ hist[n].post.angular_momentum = start.angular_momentum

C16_Witness ==
    /\ nsteps >= 2
    /\ IsFin(start.energy) /\ start.energy # Num(1)
    /\ IsFin(start.angular_momentum) /\ start.angular_momentum # Num(0)
    /\ IsFin(ray.r) /\ ray.r # start.r
    /\ ray.energy = start.energy

\* C17: every update seeds E with M = mean_motion * t, assigns it
\* M + e sin E exactly 10 times, converged or not, and computes position and
\* velocity from the 10th iterate.
C17_TenIterations ==
    updates >= 1 =>
        LET M == F32(FMul(planet.mean_motion, LastTime))
            e == planet.eccentricity
            a == planet.semi_major_axis
            E == kepler[Len(kepler)]
            shape == F32(FSub(Num(1), F32(FMul(e, FCos(E)))))
        IN  /\ Len(kepler) = 11
            /\ kepler[1] = M
            /\ \A j \in 1..10 :
                  kepler[j + 1] = F32(FAdd(M, F32(FMul(e, FSin(kepler[j])))))
            /\ planet.position.x = F32(FMul(a, F32(FSub(FCos(E), e))))
            /\ planet.velocity.x =
                  F32(FDiv(F32(FMul(F32(FMul(FNeg(a), planet.mean_motion)), FSin(E))), shape))

C17_Witness ==
    /\ updates >= 1
    /\ Len(kepler) = 11
    /\ kepler[2] # kepler[1]
    /\ kepler[10] = kepler[9]
    /\ IsFin(kepler[11])

\* C18: the camera stays inside its clamps, min_radius <= radius <= max_radius
\* and 0.01 <= elevation <= PI - 0.01, whatever calls were made.
C18_StaysClamped ==
    /\ FLe(camera.min_radius, camera.radius)
    /\ FLe(camera.radius, camera.max_radius)
    /\ FLe(ElevationMin, camera.elevation)
    /\ FLe(camera.elevation, ElevationMax)

\* the clamps do hold while every argument passed so far was finite
ClampedForFiniteArguments ==
    finite_args => C18_StaysClamped

\* azimuth and elevation change only in a process_mouse_move made while
\* dragging is true
TurnsOnlyWhileDragging ==
    [][(camera'.azimuth # camera.azimuth \/ camera'.elevation # camera.elevation)
          => (last_call' = "process_mouse_move" /\ camera.dragging)]_vars

\* C19: moving is the value dragging had at the end of the last
\* process_mouse_move, process_scroll or update call, false before any;
\* process_mouse_button leaves moving as it is, and only it changes dragging.
C19_MovingFollowsDragging ==
    /\ [](camera.moving = synced)
    /\ [][last_call' = "process_mouse_button" => camera'.moving = camera.moving]_vars
    /\ [][camera'.dragging # camera.dragging => last_call' = "process_mouse_button"]_vars

C19_Witness ==
    /\ last_call = "process_mouse_button"
    /\ camera.dragging
    /\ ~camera.moving
    /\ calls >= 2
====
